---- MODULE Spec2Model ----
(***************************************************************************)
(* Self-healing locator add-on: the healing decision engine                *)
(* (HealingContext.healLocator and the HealingPage wrappers of             *)
(* utils/healing-fixture.ts), the run-scoped report file written by the    *)
(* healingContext fixture, and the aggregation of those files into the     *)
(* cumulative summary by HealingReporter.onEnd (utils/healing-reporter.ts).*)
(*                                                                         *)
(* Four specifications share the variables:                                 *)
(*   SpecHeal  one HealingContext ("r1") followed await by await through   *)
(*             its wrapped operations, within one millisecond of the       *)
(*             clock;                                                      *)
(*   SpecAgg   several test runs and several reporters sharing the         *)
(*             healing-reports directory, one file-system call per step;   *)
(*   SpecSeed  test runs and one reporter starting from a summary.json     *)
(*             left by earlier invocations;                                *)
(*   SpecDamage  the same with a summary.json and run-scoped files that    *)
(*             can be damaged on disk.                                     *)
(***************************************************************************)
EXTENDS Integers, Sequences, FiniteSets, TLC

\* ------------------------------------------------------------ bounds ----
\* Date.now() takes the values 0..MaxTime (milliseconds).
MaxTime == 1
\* Wrapped operations issued by the test over one HealingContext lifetime.
MaxOps == 2
\* Candidates returned by both provider variants over one lifetime, in total.
MaxSuggested == 3
\* Healing events one run records in SpecAgg.
MaxRunEvents == 1
\* Events of the summary.json SpecSeed starts from.
MaxSeedEvents == 2

\* ------------------------------------------------ program constants ----
FailFastTimeout == 5000
ValidateTimeout == 2000

\* -------------------------------------------------------- universes ----
Runs == {"r1", "r2"}
Aggs == {"g1", "g2"}
\* The context SpecHeal follows step by step.
D == "r1"
Originals == {"#old1", "#old2"}
Candidates == {"A", "B", "C"}
\* the caller's options.timeout (0 stands for an operation that takes no options)
CallerTimeouts == {30000}
FileNames == 0..MaxTime

TestName(r) == IF r = "r1" THEN "test one" ELSE "test two"

\* Map.has(k) = FALSE is modelled by the value NoEntry.
NoEntry == "<no entry>"
EmptyCache == [l \in Originals |-> NoEntry]

SeqsUpTo(S, n) == UNION {[1..k -> S] : k \in 0..n}

\* ------------------------------------------------------ HealingChange --
MkChange(ts, test, orig, healed, msg, ok, attempted, ms) ==
  [timestamp |-> ts, testName |-> test, originalLocator |-> orig,
   healedLocator |-> healed, errorMessage |-> msg, success |-> ok,
   attemptedLocators |-> attempted, healingTimeMs |-> ms]

\* ----------------------------------------------------- files on disk ---
\* A file has a content that JSON.parse accepts (parses) or throws on. A list
\* read from a file can hold elements that are no objects: NullElement stands
\* for the JSON value null, on which reading a property throws a TypeError.
NullElement == MkChange(0, "", "<null>", "", "", FALSE, <<>>, 0)
HasNull(cs) == \E i \in 1..Len(cs) : cs[i] = NullElement
AbsentSummary ==
  [exists |-> FALSE, parses |-> TRUE, totalTests |-> 0, totalHealing |-> 0, successfulHealing |-> 0,
   failedHealing |-> 0, timestamp |-> 0, changes |-> <<>>]
AbsentFile == [exists |-> FALSE, parses |-> TRUE, data |-> <<>>]
\* No file written: the fixture's guard at line 422 was false.
NoFile == [written |-> FALSE, name |-> 0, data |-> <<>>]

VARIABLES
  now,               \* the wall clock, Date.now()
  summary,           \* healing-reports/summary.json
  files,             \* healing-reports/healing-<n>.json, by n
  report,            \* healing-reports/summary.html: the summary it was rendered from
  rpc,               \* per run: "new", "running", "ended"
  enabled,           \* per run: HealingContext.enabled
  healingCache,      \* per run: HealingContext.healingCache
  changes,           \* per run: HealingContext.changes
  hpc,               \* where the wrapped operation of D is suspended
  op,                \* the wrapped operation in progress (or the last one)
  error,             \* the error the direct attempt threw
  healingStartTime,
  suggestions,
  visionSuggestions,
  idx,               \* position of the for-of loop in progress
  attemptedLocators,
  result,            \* what healLocator returned
  outcome,           \* how the wrapped operation ended
  trace,             \* calls made on the page and the provider by the operation
  opCount,
  suggested,
  evictedAt,         \* per original locator: the last operation that evicted its
                     \* cache entry, 0 when none did (history)
  healedAt,          \* per original locator: the last operation whose healing set its
                     \* cache entry, 0 when none did (history)
  apc,               \* per reporter: position in onEnd
  jsonFiles,         \* per reporter: the readdir listing still to process
  healingChanges,    \* per reporter: HealingReporter.healingChanges
  existingSummary,   \* per reporter: the summary read at line 77
  consumed,          \* per reporter: the files it read, name and content (history)
  faulted,           \* per reporter: an unlinkSync of this run threw (history)
  solo,              \* per reporter: no other process wrote since it began (history)
  flushed,           \* per run: the file the fixture wrote, name and content (history)
  recorded           \* every HealingChange ever passed to recordChange (history)

fsVars == <<summary, files, report>>
runVars == <<rpc, enabled, healingCache, changes>>
healVars == <<hpc, op, error, healingStartTime, suggestions, visionSuggestions, idx,
              attemptedLocators, result, outcome, trace, opCount, suggested, evictedAt, healedAt>>
aggVars == <<apc, jsonFiles, healingChanges, existingSummary, consumed, faulted, solo>>
vars == <<now, fsVars, runVars, healVars, aggVars, recorded, flushed>>

\* --------------------------------------------------------- the cache ---
RECURSIVE LoadCacheFrom(_, _)
LoadCacheFrom(cs, cache) ==
  IF cs = <<>> THEN cache
  ELSE LoadCacheFrom(Tail(cs),
         IF Head(cs).success
         THEN [cache EXCEPT ![Head(cs).originalLocator] = Head(cs).healedLocator]
         ELSE cache)

\* Mutant of LoadCache: the first success event of a locator wins.
LoadCache_FirstWins(sum) ==
  IF sum.exists /\ sum.parses /\ ~HasNull(sum.changes)
  THEN LoadCacheFrom([i \in 1..Len(sum.changes) |-> sum.changes[Len(sum.changes) + 1 - i]],
                     EmptyCache)
  ELSE EmptyCache

\* loadCache: index the success events of summary.json, last one wins. All of
\* it runs inside try: a file that does not parse, or a list whose filter
\* callback throws, leaves the map empty.
LoadCache(sum) ==
  IF sum.exists /\ sum.parses /\ ~HasNull(sum.changes)
  THEN LoadCacheFrom(sum.changes, EmptyCache)
  ELSE EmptyCache

\* recordChange: push onto this.changes.
RecordChange(r, change) ==
  /\ changes' = [changes EXCEPT ![r] = Append(@, change)]
  /\ recorded' = recorded \cup {change}

\* ------------------------------------------- the suggestion provider ---
\* What the chat-completion call can come back with: a JSON array of
\* candidates, or an API error, an empty message, unparsable text, JSON that
\* is no array (an object wrapping a candidate), or (vision variant) a
\* screenshot file that does not exist.
ProviderResponses(n) ==
  {[kind |-> "array", list |-> l] : l \in SeqsUpTo(Candidates, n)}
  \cup {[kind |-> k, list |-> <<>>] : k \in {"apiError", "noContent", "malformed", "noFile"}}
  \cup {[kind |-> "nonArray", list |-> <<"A">>]}

\* analyzeScreenshotForLocator lines 112-118: the screenshot file exists but
\* readFileSync throws, before the try block that guards the API call.
VisionResponses(n) == ProviderResponses(n) \cup {[kind |-> "readError", list |-> <<>>]}

\* Mutant of ParseSuggestions: the parsed JSON is returned without the
\* Array.isArray test.
ParseSuggestions_NoArrayCheck(resp) ==
  IF resp.kind \in {"array", "nonArray"} THEN resp.list ELSE <<>>

\* suggestLocator / analyzeScreenshotForLocator: an array is returned as it
\* is, everything else as [].
ParseSuggestions(resp) == IF resp.kind = "array" THEN resp.list ELSE <<>>

\* ------------------------------------------------- wrapped operations --
NoOp == [kind |-> "none", locatorString |-> "", value |-> "", timeout |-> 0]
NoResult == [locator |-> "", healed |-> FALSE, returned |-> FALSE]
NotHealed == [locator |-> "", healed |-> FALSE, returned |-> TRUE]
Healed(l) == [locator |-> l, healed |-> TRUE, returned |-> TRUE]
Pending == [status |-> "pending", err |-> ""]
Returned == [status |-> "returned", err |-> ""]
Threw(e) == [status |-> "threw", err |-> e]
NoError == ""
DirectError(kind) == kind \o ": direct attempt failed"
ScreenshotError == "page.screenshot failed"
ScreenshotReadError == "readFileSync of the screenshot failed"
ReplayError == "replay on healed locator failed"

Call(c, a, v, t, ok) == [call |-> c, arg |-> a, value |-> v, timeout |-> t, ok |-> ok]

\* Mutant of Disabled: the guard of line 65 never fires.
Disabled_Never(r) == FALSE

\* healLocator line 65: if (!this.enabled).
Disabled(r) == ~enabled[r]

\* Mutant of EvictEntry: the stale entry is left in the map.
EvictEntry_Keeps(cache, L) == cache

\* healLocator line 85: this.healingCache.delete(originalLocator).
EvictEntry(cache, L) == [cache EXCEPT ![L] = NoEntry]

\* Mutant of PushAttempted: the candidate is not pushed.
PushAttempted_Forgets(att, s) == att

\* healLocator lines 116 and 169: attemptedLocators.push(suggestion).
PushAttempted(att, s) == Append(att, s)

\* healLocator lines 65-89: the synchronous code from entry to the first await.
HealLocatorEntry(L, err, tr) ==
  /\ trace' = Append(tr, Call("healLocator", L, "", 0, TRUE))
  /\ IF Disabled(D)
     THEN /\ result' = NotHealed
          /\ outcome' = Threw(err)
          /\ hpc' = "idle"
          /\ UNCHANGED healingStartTime
     ELSE /\ result' = NoResult
          /\ outcome' = Pending
          /\ IF healingCache[D][L] # NoEntry
             THEN hpc' = "cache" /\ UNCHANGED healingStartTime
             ELSE hpc' = "content" /\ healingStartTime' = now

\* Mutant of DirectFailed: the catch block runs whatever the direct attempt did.
DirectFailed_Always(ok) == TRUE

\* try { ... } catch (error): the catch block runs when the direct attempt threw.
DirectFailed(ok) == ~ok

\* The try block of a wrapper: the operation issued on the original locator.
DirectAttempt(kind, L, value, t, directTimeout) ==
  /\ rpc[D] = "running" /\ hpc = "idle" /\ opCount < MaxOps
  /\ opCount' = opCount + 1
  /\ op' = [kind |-> kind, locatorString |-> L, value |-> value, timeout |-> t]
  /\ suggestions' = <<>> /\ visionSuggestions' = <<>>
  /\ attemptedLocators' = <<>> /\ idx' = 0
  /\ \E ok \in BOOLEAN :
       LET tr == <<Call("direct", L, value, directTimeout, ok)>> IN
       IF ~DirectFailed(ok)
       THEN /\ trace' = tr /\ error' = NoError /\ result' = NoResult
            /\ outcome' = Returned /\ hpc' = "idle"
            /\ UNCHANGED healingStartTime
       ELSE /\ error' = DirectError(kind)
            /\ HealLocatorEntry(L, DirectError(kind), tr)
  /\ UNCHANGED <<now, fsVars, runVars, aggVars, recorded, flushed, suggested, evictedAt, healedAt>>

Click(L, t) == DirectAttempt("click", L, "", t, FailFastTimeout)
Fill(L, v, t) == DirectAttempt("fill", L, v, t, FailFastTimeout)
WaitForSelector(L, t) == DirectAttempt("waitFor", L, "", t, t)
IsVisible(L) == DirectAttempt("isVisible", L, "", 0, 0)

\* Mutant of CacheValidate: a cached locator that validates is not returned,
\* the call goes on to the provider.
CacheValidate_FallsThrough ==
  /\ hpc = "cache"
  /\ \E ok \in BOOLEAN :
       trace' = Append(trace, Call("validate", healingCache[D][op.locatorString], "",
                                   ValidateTimeout, ok))
  /\ healingStartTime' = now
  /\ hpc' = "content"
  /\ UNCHANGED <<now, fsVars, runVars, aggVars, recorded, flushed, op, error, suggestions,
                 visionSuggestions, idx, attemptedLocators, result, outcome, opCount,
                 suggested, evictedAt, healedAt>>

\* Mutant of CacheValidate: a cache hit records a change like a fresh healing.
CacheValidate_Records ==
  /\ hpc = "cache"
  /\ LET L == op.locatorString
         c == healingCache[D][L] IN
     \E ok \in BOOLEAN :
       /\ IF ok
          THEN /\ result' = Healed(c) /\ hpc' = "replay"
               /\ RecordChange(D, MkChange(now, TestName(D), L, c, error, TRUE, <<c>>, 0))
               /\ trace' = Append(Append(trace, Call("validate", c, "", ValidateTimeout, ok)),
                                  Call("recordChange", c, "", 0, TRUE))
               /\ UNCHANGED <<healingCache, healingStartTime, evictedAt>>
          ELSE /\ healingCache' = [healingCache EXCEPT ![D] = EvictEntry(@, L)]
               /\ evictedAt' = [evictedAt EXCEPT ![L] = opCount]
               /\ healingStartTime' = now
               /\ trace' = Append(trace, Call("validate", c, "", ValidateTimeout, ok))
               /\ hpc' = "content" /\ UNCHANGED <<result, changes, recorded>>
  /\ UNCHANGED <<now, fsVars, rpc, enabled, aggVars, flushed, op, error,
                 suggestions, visionSuggestions, idx, attemptedLocators, outcome,
                 opCount, suggested, healedAt>>

\* healLocator lines 78-86: the cached locator is resolved and awaited.
CacheValidate ==
  /\ hpc = "cache"
  /\ LET L == op.locatorString
         c == healingCache[D][L] IN
     \E ok \in BOOLEAN :
       /\ trace' = Append(trace, Call("validate", c, "", ValidateTimeout, ok))
       /\ IF ok
          THEN /\ result' = Healed(c) /\ hpc' = "replay"
               /\ UNCHANGED <<healingCache, healingStartTime, evictedAt>>
          ELSE /\ healingCache' = [healingCache EXCEPT ![D] = EvictEntry(@, L)]
               /\ evictedAt' = [evictedAt EXCEPT ![L] = opCount]
               /\ healingStartTime' = now
               /\ hpc' = "content" /\ UNCHANGED result
  /\ UNCHANGED <<now, fsVars, rpc, enabled, changes, aggVars, recorded, flushed, op, error,
                 suggestions, visionSuggestions, idx, attemptedLocators, outcome,
                 opCount, suggested, healedAt>>

\* Mutant of PageContent: a failed capture is ignored and the provider is asked.
PageContent_Continues ==
  /\ hpc = "content"
  /\ \E ok \in BOOLEAN : trace' = Append(trace, Call("content", "", "", 0, ok))
  /\ hpc' = "suggest"
  /\ attemptedLocators' = <<>>
  /\ UNCHANGED <<now, fsVars, runVars, aggVars, recorded, flushed, op, error, healingStartTime,
                 suggestions, visionSuggestions, idx, opCount, suggested, evictedAt, healedAt,
                 result, outcome>>

\* healLocator lines 91-101: page.content().
PageContent ==
  /\ hpc = "content"
  /\ \E ok \in BOOLEAN :
       /\ trace' = Append(trace, Call("content", "", "", 0, ok))
       /\ IF ok
          THEN hpc' = "suggest" /\ UNCHANGED <<result, outcome>>
          ELSE result' = NotHealed /\ outcome' = Threw(error) /\ hpc' = "idle"
  /\ attemptedLocators' = <<>>
  /\ UNCHANGED <<now, fsVars, runVars, aggVars, recorded, flushed, op, error, healingStartTime,
                 suggestions, visionSuggestions, idx, opCount, suggested, evictedAt, healedAt>>

\* healLocator success branch, lines 129-148 and 177-195.
HealSuccess(s, att, tr) ==
  /\ healingCache' = [healingCache EXCEPT ![D][op.locatorString] = s]
  /\ healedAt' = [healedAt EXCEPT ![op.locatorString] = opCount]
  /\ UNCHANGED evictedAt
  /\ RecordChange(D, MkChange(now, TestName(D), op.locatorString, s, error, TRUE, att,
                              now - healingStartTime))
  /\ trace' = Append(tr, Call("recordChange", s, "", 0, TRUE))
  /\ result' = Healed(s)
  /\ hpc' = "replay"
  /\ UNCHANGED outcome

\* Mutant of HealFailure: the failed change keeps the last candidate tried as
\* its healedLocator.
HealFailure_KeepsLast(att, tr) ==
  /\ RecordChange(D, MkChange(now, TestName(D), op.locatorString,
                              IF att = <<>> THEN "" ELSE att[Len(att)], error, FALSE, att,
                              now - healingStartTime))
  /\ trace' = Append(tr, Call("recordChange", "", "", 0, FALSE))
  /\ result' = NotHealed
  /\ outcome' = Threw(error)
  /\ hpc' = "idle"
  /\ UNCHANGED <<healingCache, evictedAt, healedAt>>

\* Mutant of HealFailure: the last candidate tried is cached although it did
\* not validate.
HealFailure_Caches(att, tr) ==
  /\ RecordChange(D, MkChange(now, TestName(D), op.locatorString, "", error, FALSE, att,
                              now - healingStartTime))
  /\ trace' = Append(tr, Call("recordChange", "", "", 0, FALSE))
  /\ result' = NotHealed
  /\ outcome' = Threw(error)
  /\ hpc' = "idle"
  /\ healingCache' = IF att = <<>> THEN healingCache
                     ELSE [healingCache EXCEPT ![D][op.locatorString] = att[Len(att)]]
  /\ UNCHANGED <<evictedAt, healedAt>>

\* healLocator lines 201-217: every candidate failed.
HealFailure(att, tr) ==
  /\ RecordChange(D, MkChange(now, TestName(D), op.locatorString, "", error, FALSE, att,
                              now - healingStartTime))
  /\ trace' = Append(tr, Call("recordChange", "", "", 0, FALSE))
  /\ result' = NotHealed
  /\ outcome' = Threw(error)
  /\ hpc' = "idle"
  /\ UNCHANGED <<healingCache, evictedAt, healedAt>>

\* healLocator lines 105-112: openAIService.suggestLocator.
SuggestLocator ==
  /\ hpc = "suggest"
  /\ \E resp \in ProviderResponses(MaxSuggested - suggested) :
       LET s == ParseSuggestions(resp) IN
       /\ suggestions' = s
       /\ suggested' = suggested + Len(s)
       /\ trace' = Append(trace, Call("suggestLocator", op.locatorString, error, 0,
                                      resp.kind = "array"))
       /\ IF s = <<>> THEN hpc' = "screenshot" /\ idx' = 0
                      ELSE hpc' = "text" /\ idx' = 1
  /\ UNCHANGED <<now, fsVars, runVars, aggVars, recorded, flushed, op, error, healingStartTime,
                 visionSuggestions, attemptedLocators, result, outcome, opCount,
                 evictedAt, healedAt>>

\* Mutant of TextValidate: the first failed candidate ends the text loop and
\* the screenshot is taken with candidates left untried.
TextValidate_SkipsRest ==
  /\ hpc = "text"
  /\ LET s == suggestions[idx]
         att == PushAttempted(attemptedLocators, s) IN
     /\ attemptedLocators' = att
     /\ \E ok \in BOOLEAN :
          LET tr == Append(trace, Call("validate", s, "", ValidateTimeout, ok)) IN
          IF ok
          THEN HealSuccess(s, att, tr) /\ UNCHANGED idx
          ELSE /\ idx' = 0 /\ hpc' = "screenshot"
               /\ trace' = tr
               /\ UNCHANGED <<healingCache, changes, recorded, result, outcome, evictedAt, healedAt>>
  /\ UNCHANGED <<now, fsVars, rpc, enabled, aggVars, flushed, op, error, healingStartTime,
                 suggestions, visionSuggestions, opCount, suggested>>

\* healLocator lines 115-153: one iteration of the loop over suggestions.
TextValidate ==
  /\ hpc = "text"
  /\ LET s == suggestions[idx]
         att == PushAttempted(attemptedLocators, s) IN
     /\ attemptedLocators' = att
     /\ \E ok \in BOOLEAN :
          LET tr == Append(trace, Call("validate", s, "", ValidateTimeout, ok)) IN
          IF ok
          THEN HealSuccess(s, att, tr) /\ UNCHANGED idx
          ELSE /\ IF idx < Len(suggestions)
                  THEN idx' = idx + 1 /\ hpc' = "text"
                  ELSE idx' = 0 /\ hpc' = "screenshot"
               /\ trace' = tr
               /\ UNCHANGED <<healingCache, changes, recorded, result, outcome, evictedAt, healedAt>>
  /\ UNCHANGED <<now, fsVars, rpc, enabled, aggVars, flushed, op, error, healingStartTime,
                 suggestions, visionSuggestions, opCount, suggested>>

\* healLocator lines 157-158: page.screenshot(), outside any try block.
Screenshot ==
  /\ hpc = "screenshot"
  /\ \E ok \in BOOLEAN :
       /\ trace' = Append(trace, Call("screenshot", "", "", 0, ok))
       /\ IF ok
          THEN hpc' = "vision" /\ UNCHANGED outcome
          ELSE outcome' = Threw(ScreenshotError) /\ hpc' = "idle"
  /\ UNCHANGED <<now, fsVars, runVars, aggVars, recorded, flushed, op, error, healingStartTime,
                 suggestions, visionSuggestions, idx, attemptedLocators, result,
                 opCount, suggested, evictedAt, healedAt>>

\* Mutant of NextUntried: the loop over visionSuggestions is left instead of
\* continued.
NextUntried_Stops(vs, i, att) == Len(vs) + 1

\* Line 167: the first position from i on whose candidate was not attempted yet.
RECURSIVE NextUntried(_, _, _)
NextUntried(vs, i, att) ==
  IF i > Len(vs) THEN i
  ELSE IF \E k \in 1..Len(att) : att[k] = vs[i] THEN NextUntried(vs, i + 1, att)
  ELSE i

\* healLocator lines 160-166: openAIService.analyzeScreenshotForLocator.
AnalyzeScreenshot ==
  /\ hpc = "vision"
  /\ \E resp \in VisionResponses(MaxSuggested - suggested) :
       LET vs == ParseSuggestions(resp)
           j == NextUntried(vs, 1, attemptedLocators)
           tr == Append(trace, Call("analyzeScreenshotForLocator", op.locatorString,
                                    error, 0, resp.kind = "array")) IN
       IF resp.kind = "readError"
       THEN /\ outcome' = Threw(ScreenshotReadError) /\ hpc' = "idle" /\ trace' = tr
            /\ UNCHANGED <<visionSuggestions, suggested, idx, healingCache, changes, recorded,
                           result, evictedAt, healedAt>>
       ELSE /\ visionSuggestions' = vs
            /\ suggested' = suggested + Len(vs)
            /\ IF j > Len(vs)
               THEN HealFailure(attemptedLocators, tr) /\ idx' = 0
               ELSE /\ idx' = j /\ hpc' = "visionLoop" /\ trace' = tr
                    /\ UNCHANGED <<healingCache, changes, recorded, result, outcome,
                                   evictedAt, healedAt>>
  /\ UNCHANGED <<now, fsVars, rpc, enabled, aggVars, flushed, op, error, healingStartTime,
                 suggestions, attemptedLocators, opCount>>

\* healLocator lines 166-199: one iteration of the loop over visionSuggestions.
VisionValidate ==
  /\ hpc = "visionLoop"
  /\ LET s == visionSuggestions[idx]
         att == PushAttempted(attemptedLocators, s) IN
     /\ attemptedLocators' = att
     /\ \E ok \in BOOLEAN :
          LET tr == Append(trace, Call("validate", s, "", ValidateTimeout, ok))
              j == NextUntried(visionSuggestions, idx + 1, att) IN
          IF ok
          THEN HealSuccess(s, att, tr) /\ UNCHANGED idx
          ELSE IF j > Len(visionSuggestions)
               THEN HealFailure(att, tr) /\ idx' = 0
               ELSE /\ idx' = j /\ hpc' = "visionLoop" /\ trace' = tr
                    /\ UNCHANGED <<healingCache, changes, recorded, result, outcome,
                                   evictedAt, healedAt>>
  /\ UNCHANGED <<now, fsVars, rpc, enabled, aggVars, flushed, op, error, healingStartTime,
                 suggestions, visionSuggestions, opCount, suggested>>

\* Mutant of ReplayCall: the replay keeps the fail-fast timeout of the direct attempt.
ReplayCall_FailFast(o, l, ok) == Call("replay." \o o.kind, l, o.value, FailFastTimeout, ok)

\* result.locator.click(options), .fill(value, options), .waitFor(options),
\* .isVisible(): the wrapper's own method with the arguments it was called with.
ReplayCall(o, l, ok) == Call("replay." \o o.kind, l, o.value, o.timeout, ok)

\* Mutant of Replay: a replay that fails enters healLocator again.
Replay_Reheals ==
  /\ hpc = "replay"
  /\ \E ok \in BOOLEAN :
       LET tr == Append(trace, ReplayCall(op, result.locator, ok)) IN
       IF ok
       THEN /\ trace' = tr /\ outcome' = Returned /\ hpc' = "idle"
            /\ UNCHANGED <<result, healingStartTime>>
       ELSE HealLocatorEntry(op.locatorString, error, tr)
  /\ UNCHANGED <<now, fsVars, runVars, aggVars, recorded, flushed, op, error,
                 suggestions, visionSuggestions, idx, attemptedLocators,
                 opCount, suggested, evictedAt, healedAt>>

\* The catch block of a wrapper after healLocator returned healed: the same
\* operation on result.locator with the caller's own arguments and options.
Replay ==
  /\ hpc = "replay"
  /\ \E ok \in BOOLEAN :
       /\ trace' = Append(trace, ReplayCall(op, result.locator, ok))
       /\ outcome' = IF ok THEN Returned ELSE Threw(ReplayError)
  /\ hpc' = "idle"
  /\ UNCHANGED <<now, fsVars, runVars, aggVars, recorded, flushed, op, error, healingStartTime,
                 suggestions, visionSuggestions, idx, attemptedLocators, result,
                 opCount, suggested, evictedAt, healedAt>>

\* ------------------------------------------------------- test runs -----
\* new HealingContext(apiKey): enabled = !!apiKey, then loadCache().
Construct(r) ==
  /\ rpc[r] = "new"
  /\ \E key \in BOOLEAN : enabled' = [enabled EXCEPT ![r] = key]
  /\ healingCache' = [healingCache EXCEPT ![r] = LoadCache(summary)]
  /\ rpc' = [rpc EXCEPT ![r] = "running"]
  /\ UNCHANGED <<now, fsVars, changes, healVars, aggVars, recorded, flushed>>

\* Mutant of SaveChangesToFile: the content already at outputPath is kept in
\* front of this.changes.
SaveChangesToFile_Merges(r, name) ==
  files' = [files EXCEPT ![name] = [exists |-> TRUE, parses |-> TRUE, data |-> @.data \o changes[r]]]

\* saveChangesToFile: the file at outputPath is replaced by this.changes (the
\* list merged at lines 243-266 is dropped).
SaveChangesToFile(r, name) ==
  files' = [files EXCEPT ![name] = [exists |-> TRUE, parses |-> TRUE, data |-> changes[r]]]

\* The healingContext fixture after use(): healing-<Date.now()>.json is written
\* when the context recorded a change.
Teardown(r) ==
  /\ rpc[r] = "running"
  /\ r = D => hpc = "idle"
  /\ rpc' = [rpc EXCEPT ![r] = "ended"]
  /\ IF Len(changes[r]) > 0
     THEN /\ SaveChangesToFile(r, now)
          /\ flushed' = [flushed EXCEPT ![r] = [written |-> TRUE, name |-> now,
                                                data |-> files'[now].data]]
          /\ solo' = [a \in Aggs |-> FALSE]
     ELSE UNCHANGED <<files, solo, flushed>>
  /\ UNCHANGED <<now, summary, report, enabled, healingCache, changes, healVars,
                 apc, jsonFiles, healingChanges, existingSummary, consumed, faulted,
                 recorded>>

\* Time passes.
Tick ==
  /\ now < MaxTime
  /\ now' = now + 1
  /\ UNCHANGED <<fsVars, runVars, healVars, aggVars, recorded, flushed>>

\* ------------------------------------------------ SpecHeal --------------
\* summary.json as an earlier invocation can have left it: absent, or holding
\* one successful healing.
PriorSummaries ==
  {AbsentSummary} \cup
  {[exists |-> TRUE, parses |-> TRUE, totalTests |-> 1, totalHealing |-> 1, successfulHealing |-> 1,
    failedHealing |-> 0, timestamp |-> 0,
    changes |-> <<MkChange(0, "earlier test", l, h, DirectError("click"), TRUE, <<h>>, 0)>>]
     : l \in Originals, h \in {"A"}}

InitCommon ==
  /\ now = 0
  /\ files = [n \in FileNames |-> AbsentFile]
  /\ report = AbsentSummary
  /\ rpc = [r \in Runs |-> "new"]
  /\ enabled = [r \in Runs |-> FALSE]
  /\ healingCache = [r \in Runs |-> EmptyCache]
  /\ changes = [r \in Runs |-> <<>>]
  /\ hpc = "idle" /\ op = NoOp /\ error = NoError /\ healingStartTime = 0
  /\ suggestions = <<>> /\ visionSuggestions = <<>> /\ idx = 0
  /\ attemptedLocators = <<>> /\ result = NoResult /\ outcome = Pending
  /\ trace = <<>> /\ opCount = 0 /\ suggested = 0
  /\ evictedAt = [l \in Originals |-> 0]
  /\ healedAt = [l \in Originals |-> 0]
  /\ apc = [a \in Aggs |-> "idle"]
  /\ jsonFiles = [a \in Aggs |-> <<>>]
  /\ healingChanges = [a \in Aggs |-> <<>>]
  /\ existingSummary = [a \in Aggs |-> AbsentSummary]
  /\ consumed = [a \in Aggs |-> <<>>]
  /\ faulted = [a \in Aggs |-> FALSE]
  /\ solo = [a \in Aggs |-> FALSE]
  /\ recorded = {}
  /\ flushed = [r \in Runs |-> NoFile]

InitHeal == InitCommon /\ summary \in PriorSummaries

NextHeal ==
  \/ Construct(D)
  \/ \E L \in Originals, t \in CallerTimeouts : Click(L, t)
  \/ \E L \in Originals, t \in CallerTimeouts : Fill(L, "Test", t)
  \/ \E L \in Originals, t \in CallerTimeouts : WaitForSelector(L, t)
  \/ \E L \in Originals : IsVisible(L)
  \/ CacheValidate
  \/ PageContent
  \/ SuggestLocator
  \/ TextValidate
  \/ Screenshot
  \/ AnalyzeScreenshot
  \/ VisionValidate
  \/ Replay
  \/ Teardown(D)

SpecHeal == InitHeal /\ [][NextHeal]_vars

\* ------------------------------------------------ SpecAgg: test runs ----
\* The candidates healings end on in SpecAgg.
AggHealed == {"A", "B"}

\* A wrapped operation of run r whose healLocator call ran to its recorded
\* event, taken as one step: a success sets the cache and records
\* success = true, an exhaustion records success = false. A healing spends
\* provider round trips, so two events of one run never share a millisecond.
HealLocatorRecorded(r, L, ok, h) ==
  /\ rpc[r] = "running" /\ enabled[r]
  /\ Len(changes[r]) < MaxRunEvents
  /\ changes[r] # <<>> => changes[r][Len(changes[r])].timestamp < now
  /\ IF ok
     THEN /\ healingCache' = [healingCache EXCEPT ![r][L] = h]
          /\ RecordChange(r, MkChange(now, TestName(r), L, h, DirectError("click"), TRUE,
                                      <<h>>, 0))
     ELSE /\ UNCHANGED healingCache
          /\ RecordChange(r, MkChange(now, TestName(r), L, "", DirectError("click"), FALSE,
                                      <<>>, 0))
  /\ UNCHANGED <<now, fsVars, rpc, enabled, healVars, aggVars, flushed>>

\* ------------------------------------------------ HealingReporter.onEnd --
\* Mutant of SameKey: two changes are the same only when every field agrees.
SameKey_WholeChange(c, d) == c = d

\* onEnd lines 86-89: the duplicate test of the merge.
SameKey(c, d) == c.timestamp = d.timestamp /\ c.originalLocator = d.originalLocator

\* Mutant of MergeChanges: every change is appended.
MergeChanges_NoDedup(allChanges, new) == allChanges \o new

\* Mutant of MergeChanges: the new changes go in front of the existing ones.
MergeChanges_Prepends(allChanges, new) == new \o allChanges

\* onEnd lines 84-93: append each change no entry of allChanges shares the
\* timestamp and the originalLocator of.
RECURSIVE MergeChanges(_, _)
MergeChanges(allChanges, new) ==
  IF new = <<>> THEN allChanges
  ELSE MergeChanges(
         IF \E i \in 1..Len(allChanges) : SameKey(allChanges[i], Head(new))
         THEN allChanges
         ELSE Append(allChanges, Head(new)),
         Tail(new))

CountSuccess(cs) == Cardinality({i \in 1..Len(cs) : cs[i].success})
CountFailed(cs) == Cardinality({i \in 1..Len(cs) : ~cs[i].success})

\* onEnd lines 95-102.
BuildSummary(allChanges, status, ts) ==
  [exists |-> TRUE, parses |-> TRUE,
   totalTests |-> IF status = "passed" THEN 1 ELSE 0,
   totalHealing |-> Len(allChanges),
   successfulHealing |-> CountSuccess(allChanges),
   failedHealing |-> CountFailed(allChanges),
   timestamp |-> ts,
   changes |-> allChanges]

\* The orders readdirSync can list a set of names in.
Listings(S) ==
  {q \in [1..Cardinality(S) -> S] : \A i, j \in 1..Cardinality(S) : i # j => q[i] # q[j]}

OthersNotSolo(a) == [b \in Aggs |-> IF b = a THEN solo[b] ELSE FALSE]

\* onEnd lines 42-46: the healing-*.json files of the directory are listed.
AggListFiles(a) ==
  /\ apc[a] = "idle"
  /\ \E q \in Listings({n \in FileNames : files[n].exists}) :
       /\ jsonFiles' = [jsonFiles EXCEPT ![a] = q]
       /\ apc' = [apc EXCEPT ![a] = IF q = <<>> THEN "readSummary" ELSE "readFile"]
  /\ solo' = [solo EXCEPT ![a] = TRUE]
  /\ UNCHANGED <<now, fsVars, runVars, healVars, healingChanges, existingSummary,
                 consumed, faulted, recorded, flushed>>

AfterFile(a) == IF Len(jsonFiles[a]) > 1 THEN "readFile" ELSE "readSummary"

\* onEnd lines 50-53: a listed file is read and its changes pushed; a file
\* that is gone by now, or that JSON.parse rejects, throws and is skipped by
\* the catch (it is not unlinked).
AggReadFile(a) ==
  /\ apc[a] = "readFile"
  /\ LET f == Head(jsonFiles[a]) IN
     IF files[f].exists /\ files[f].parses
     THEN /\ healingChanges' = [healingChanges EXCEPT ![a] = @ \o files[f].data]
          /\ consumed' = [consumed EXCEPT ![a] = Append(@, [name |-> f, data |-> files[f].data])]
          /\ apc' = [apc EXCEPT ![a] = "unlink"]
          /\ UNCHANGED jsonFiles
     ELSE /\ jsonFiles' = [jsonFiles EXCEPT ![a] = Tail(@)]
          /\ apc' = [apc EXCEPT ![a] = AfterFile(a)]
          /\ UNCHANGED <<healingChanges, consumed>>
  /\ UNCHANGED <<now, fsVars, runVars, healVars, existingSummary, faulted, solo, recorded, flushed>>

\* Mutant of UnlinkFile: the file stays.
UnlinkFile_Keeps(fs, f) == fs

\* fs.unlinkSync(filePath) that succeeds.
UnlinkFile(fs, f) == [fs EXCEPT ![f] = AbsentFile]

\* onEnd line 56: unlinkSync of the file just read; when it throws (the file
\* is gone, or the file system refuses) the catch goes on to the next file.
AggUnlink(a) ==
  /\ apc[a] = "unlink"
  /\ LET f == Head(jsonFiles[a]) IN
     \E allowed \in BOOLEAN :
       IF allowed /\ files[f].exists
       THEN /\ files' = UnlinkFile(files, f)
            /\ solo' = OthersNotSolo(a)
            /\ UNCHANGED faulted
       ELSE /\ faulted' = [faulted EXCEPT ![a] = TRUE]
            /\ UNCHANGED <<files, solo>>
  /\ jsonFiles' = [jsonFiles EXCEPT ![a] = Tail(@)]
  /\ apc' = [apc EXCEPT ![a] = AfterFile(a)]
  /\ UNCHANGED <<now, summary, report, runVars, healVars, healingChanges,
                 existingSummary, consumed, recorded, flushed>>

\* onEnd lines 74-81: summary.json is read (null when it does not exist or
\* does not parse).
AggReadSummary(a) ==
  /\ apc[a] = "readSummary"
  /\ existingSummary' = [existingSummary EXCEPT ![a] =
                            IF summary.exists /\ summary.parses THEN summary ELSE AbsentSummary]
  /\ apc' = [apc EXCEPT ![a] = "write"]
  /\ UNCHANGED <<now, fsVars, runVars, healVars, jsonFiles, healingChanges, consumed,
                 faulted, solo, recorded, flushed>>

\* Mutant of ExistingChanges: the summary read is not merged into.
ExistingChanges_Ignored(a) == <<>>

\* existingSummary?.changes || []
ExistingChanges(a) == IF existingSummary[a].exists THEN existingSummary[a].changes ELSE <<>>

\* onEnd lines 84-113: the merge, summary.json overwritten, summary.html
\* rendered from the same object.
AggWriteSummary(a) ==
  /\ apc[a] = "write"
  /\ IF HasNull(ExistingChanges(a)) \/ HasNull(healingChanges[a])
     THEN \* c.timestamp (line 87) or c.success (line 98) on null: onEnd rejects
          /\ apc' = [apc EXCEPT ![a] = "threw"]
          /\ UNCHANGED <<summary, report, solo>>
     ELSE /\ \E status \in {"passed", "failed"} :
               LET s == BuildSummary(MergeChanges(ExistingChanges(a), healingChanges[a]),
                                     status, now) IN
               /\ summary' = s
               /\ report' = s
          /\ apc' = [apc EXCEPT ![a] = "done"]
          /\ solo' = OthersNotSolo(a)
  /\ UNCHANGED <<now, files, runVars, healVars, jsonFiles, healingChanges,
                 existingSummary, consumed, faulted, recorded, flushed>>

InitAgg == InitCommon /\ summary = AbsentSummary

NextAgg ==
  \/ Tick
  \/ \E r \in Runs : Construct(r)
  \/ \E r \in Runs, L \in Originals, ok \in BOOLEAN, h \in AggHealed :
       HealLocatorRecorded(r, L, ok, h)
  \/ \E r \in Runs : Teardown(r)
  \/ \E a \in Aggs : AggListFiles(a)
  \/ \E a \in Aggs : AggReadFile(a)
  \/ \E a \in Aggs : AggUnlink(a)
  \/ \E a \in Aggs : AggReadSummary(a)
  \/ \E a \in Aggs : AggWriteSummary(a)

SpecAgg == InitAgg /\ [][NextAgg]_vars

\* ------------------------------------------------ SpecSeed --------------
\* summary.json as earlier invocations can have left it: absent, or a summary
\* of up to MaxSeedEvents changes, older than every Date.now() of this
\* invocation.
SeedShapes ==
  {[orig |-> l, healed |-> h, ok |-> TRUE] : l \in Originals, h \in AggHealed}
  \cup {[orig |-> l, healed |-> "", ok |-> FALSE] : l \in Originals}
SeedChange(sh, i) ==
  MkChange(i - 1 - MaxSeedEvents, "earlier test", sh.orig, sh.healed, DirectError("click"),
           sh.ok, IF sh.ok THEN <<sh.healed>> ELSE <<>>, 0)
SeedLists ==
  UNION {{[i \in 1..n |-> SeedChange(q[i], i)] : q \in [1..n -> SeedShapes]} :
           n \in 0..MaxSeedEvents}
SeedSummaries == {AbsentSummary} \cup {BuildSummary(cs, "passed", -1) : cs \in SeedLists}

\* The reporter of SpecSeed and SpecDamage.
SeedAggs == {"g1"}

InitSeed == InitCommon /\ summary \in SeedSummaries

NextSeed ==
  \/ \E r \in Runs : Construct(r)
  \/ \E r \in Runs, L \in Originals, ok \in BOOLEAN, h \in AggHealed :
       HealLocatorRecorded(r, L, ok, h)
  \/ \E r \in Runs : Teardown(r)
  \/ \E a \in SeedAggs : AggListFiles(a)
  \/ \E a \in SeedAggs : AggReadFile(a)
  \/ \E a \in SeedAggs : AggUnlink(a)
  \/ \E a \in SeedAggs : AggReadSummary(a)
  \/ \E a \in SeedAggs : AggWriteSummary(a)

SpecSeed == InitSeed /\ [][NextSeed]_vars

\* ------------------------------------------------ SpecDamage ------------
\* A summary.json that JSON.parse rejects, and one whose changes list holds null.
UnparsableSummary == [BuildSummary(<<>>, "passed", -1) EXCEPT !.parses = FALSE]
NullSummary == [BuildSummary(<<>>, "passed", -1) EXCEPT !.changes = <<NullElement>>]
DamagedSummaries == {UnparsableSummary, NullSummary}

\* A run-scoped file is damaged on disk: its content no longer parses, or its
\* list holds a null.
DamageFile(n) ==
  /\ files[n].exists /\ files[n].parses /\ ~HasNull(files[n].data)
  /\ \/ files' = [files EXCEPT ![n].parses = FALSE]
     \/ files' = [files EXCEPT ![n].data = Append(@, NullElement)]
  /\ UNCHANGED <<now, summary, report, runVars, healVars, aggVars, recorded, flushed>>

InitDamage ==
  InitCommon /\ summary \in {AbsentSummary} \cup DamagedSummaries \cup PriorSummaries

NextDamage ==
  \/ Tick
  \/ \E r \in Runs : Construct(r)
  \/ \E r \in Runs, L \in Originals, ok \in BOOLEAN, h \in AggHealed :
       HealLocatorRecorded(r, L, ok, h)
  \/ \E r \in Runs : Teardown(r)
  \/ \E n \in FileNames : DamageFile(n)
  \/ \E a \in SeedAggs : AggListFiles(a)
  \/ \E a \in SeedAggs : AggReadFile(a)
  \/ \E a \in SeedAggs : AggUnlink(a)
  \/ \E a \in SeedAggs : AggReadSummary(a)
  \/ \E a \in SeedAggs : AggWriteSummary(a)

SpecDamage == InitDamage /\ [][NextDamage]_vars

\* ======================================================== properties ====
HealEntered == Len(trace) >= 2 /\ trace[2].call = "healLocator"
\* The validation that directly follows the entry is the one of the cached locator.
CacheValidated == HealEntered /\ Len(trace) >= 3 /\ trace[3].call = "validate"
CallsOf(names) == {i \in 1..Len(trace) : trace[i].call \in names}
ProviderCalls == CallsOf({"suggestLocator", "analyzeScreenshotForLocator"})
LastChange == changes[D][Len(changes[D])]

\* C1: enabled, the cache maps L to H and H validates: healLocator returns H
\* with healed = true and calls neither suggestLocator nor
\* analyzeScreenshotForLocator.
C1_CacheHitSkipsProvider ==
  (enabled[D] /\ CacheValidated /\ trace[3].ok) =>
     /\ trace[3].arg = healingCache[D][op.locatorString]
     /\ trace[3].arg # NoEntry
     /\ result = Healed(trace[3].arg)
     /\ ProviderCalls = {}
     /\ CallsOf({"content", "screenshot"}) = {}

C1_Witness ==
  /\ enabled[D] /\ CacheValidated /\ trace[3].ok
  /\ hpc = "idle" /\ outcome = Returned /\ result = Healed("A")
  /\ opCount = 1

\* An eviction of L's entry that no healing has made up for since.
Dead(L) == evictedAt[L] > 0 /\ healedAt[L] < evictedAt[L]

\* C2 as stated: a cached mapping that fails re-validation is evicted, and
\* every later healLocator call for the same locator validates no cached
\* locator but goes on to page.content() and the provider.
C2_Original ==
  /\ (CacheValidated /\ ~trace[3].ok /\ hpc = "content") =>
        healingCache[D][op.locatorString] = NoEntry
  /\ (HealEntered /\ enabled[D] /\ evictedAt[op.locatorString] > 0
        /\ evictedAt[op.locatorString] < opCount /\ Len(trace) >= 3) =>
        trace[3].call = "content"

\* C2, amended: a cached mapping that fails re-validation is evicted; as long
\* as no successful healing has set a mapping for the locator again, a later
\* healLocator call for it validates no cached locator: it goes to
\* page.content() and, when that succeeds, to suggestLocator.
C2_EvictedEntryNotRetried ==
  /\ \A L \in Originals : Dead(L) => healingCache[D][L] = NoEntry
  /\ (HealEntered /\ enabled[D] /\ Dead(op.locatorString)
        /\ evictedAt[op.locatorString] < opCount) =>
        /\ hpc # "cache"
        /\ Len(trace) >= 3 => trace[3].call = "content"
        /\ (Len(trace) >= 4 /\ trace[3].ok) => trace[4].call = "suggestLocator"

C2_Witness ==
  /\ HealEntered /\ opCount = 2
  /\ Dead(op.locatorString) /\ evictedAt[op.locatorString] = 1
  /\ Len(trace) >= 4 /\ trace[4].call = "suggestLocator"
  /\ summary.exists /\ LoadCache(summary)[op.locatorString] # NoEntry

\* C4: without a credential every healLocator call returns {null, false}
\* whatever the cache holds, makes no call on the page or the provider,
\* validates nothing and records nothing.
C4_DisabledBypass ==
  (rpc[D] # "new" /\ ~enabled[D]) =>
     /\ changes[D] = <<>> /\ recorded = {}
     /\ healingCache[D] = LoadCache(summary)
     /\ HealEntered =>
          /\ Len(trace) = 2
          /\ result = NotHealed
          /\ outcome = Threw(DirectError(op.kind))
          /\ hpc = "idle"

C4_Witness ==
  /\ rpc[D] # "new" /\ ~enabled[D] /\ HealEntered
  /\ healingCache[D][op.locatorString] # NoEntry
  /\ result = NotHealed

\* Position of the suggestLocator call in the trace (0 when there is none), and
\* the number of validations that follow it directly: those of the text loop.
SuggestPos == IF \E i \in 1..Len(trace) : trace[i].call = "suggestLocator"
              THEN CHOOSE i \in 1..Len(trace) : trace[i].call = "suggestLocator"
              ELSE 0
TextValidations ==
  Cardinality({i \in 1..Len(trace) - SuggestPos :
                 \A j \in 1..i : trace[SuggestPos + j].call = "validate"})

\* C5: the text candidates are validated in the order suggestLocator returned
\* them, one validation each, and the first success ends the loop: the event
\* recorded has attemptedLocators = the candidates up to and including the one
\* that validated and healedLocator = that candidate; later candidates are
\* neither validated nor recorded.
C5_OrderAndFirstSuccess ==
  SuggestPos > 0 =>
    LET p == SuggestPos
        k == TextValidations IN
    /\ k <= Len(suggestions)
    /\ \A i \in 1..k : trace[p + i].arg = suggestions[i]
    /\ \A i \in 1..(k - 1) : ~trace[p + i].ok
    /\ hpc = "text" => idx = k + 1 /\ attemptedLocators = SubSeq(suggestions, 1, k)
    /\ (k >= 1 /\ trace[p + k].ok) =>
         /\ result = Healed(suggestions[k])
         /\ LastChange.success
         /\ LastChange.healedLocator = suggestions[k]
         /\ LastChange.attemptedLocators = SubSeq(suggestions, 1, k)
         /\ LastChange.originalLocator = op.locatorString
         /\ CallsOf({"validate"}) \subseteq (p + 1)..(p + k) \cup {3}
    /\ (Len(trace) > p + k /\ ~(k >= 1 /\ trace[p + k].ok)) =>
         k = Len(suggestions) /\ trace[p + k + 1].call = "screenshot"

C5_Witness ==
  /\ SuggestPos > 0 /\ hpc = "idle"
  /\ suggestions = <<"A", "B", "C">>
  /\ TextValidations = 2
  /\ ~trace[SuggestPos + 1].ok /\ trace[SuggestPos + 2].ok
  /\ LastChange.attemptedLocators = <<"A", "B">>
  /\ LastChange.healedLocator = "B"
  /\ \A i \in 1..Len(trace) : trace[i].arg # "C"

\* The first occurrences of a sequence, in order.
RECURSIVE Dedupe(_, _)
Dedupe(seq, seen) ==
  IF seq = <<>> THEN <<>>
  ELSE IF Head(seq) \in seen THEN Dedupe(Tail(seq), seen)
  ELSE <<Head(seq)>> \o Dedupe(Tail(seq), seen \cup {Head(seq)})

\* C6: both provider variants answered, no candidate validated and healLocator
\* returned: it has recorded exactly one event, with success = false, healedLocator = "" and
\* attemptedLocators = the text candidates followed by the vision candidates,
\* each string once, and returns not healed.
C6_ExhaustionEvent ==
  (hpc = "idle" /\ result.returned /\ CallsOf({"analyzeScreenshotForLocator"}) # {}
     /\ \A i \in CallsOf({"validate"}) : ~trace[i].ok) =>
     /\ Cardinality(CallsOf({"recordChange"})) = 1
     /\ ~LastChange.success
     /\ LastChange.healedLocator = ""
     /\ LastChange.attemptedLocators = Dedupe(suggestions \o visionSuggestions, {})
     /\ result = NotHealed

\* C7: a wrapped operation whose direct attempt threw E and whose healing did
\* not succeed throws E itself.
C7_OriginalErrorPropagates ==
  (hpc = "idle" /\ HealEntered /\ ~result.healed) =>
     outcome = Threw(DirectError(op.kind))

\* ---------------------------------------------------------------------
SummaryChanges == IF summary.exists THEN summary.changes ELSE <<>>
Range(q) == {q[i] : i \in 1..Len(q)}
NoDupKeys(cs) ==
  \A i, j \in 1..Len(cs) :
    (cs[i].timestamp = cs[j].timestamp /\ cs[i].originalLocator = cs[j].originalLocator)
      => i = j
Occurrences(e, cs) == Cardinality({i \in 1..Len(cs) : cs[i] = e})

\* C3: merging a run-scoped file a second time changes nothing: for the lists
\* a reporter holds and for every file on disk against the summary on disk,
\* merge(merge(S, F), F) = merge(S, F), and a reporter whose changes are all in
\* the summary it read merges to that summary's own list.
C3_MergeIdempotent ==
  /\ \A a \in Aggs :
       LET E == ExistingChanges(a)
           H == healingChanges[a] IN
       /\ MergeChanges(MergeChanges(E, H), H) = MergeChanges(E, H)
       /\ Range(H) \subseteq Range(E) => MergeChanges(E, H) = E
  /\ \A n \in FileNames :
       files[n].exists =>
         MergeChanges(MergeChanges(SummaryChanges, files[n].data), files[n].data)
           = MergeChanges(SummaryChanges, files[n].data)

\* A file merged by one reporter, whose unlink failed, was merged again by the
\* other reporter, and the summary holds what it held before that second merge.
C3_Witness ==
  \E a, b \in Aggs :
    /\ a # b /\ apc[a] = "done" /\ apc[b] = "done" /\ faulted[b]
    /\ \E i \in 1..Len(consumed[a]), j \in 1..Len(consumed[b]) :
         /\ consumed[a][i] = consumed[b][j]
         /\ consumed[a][i].data # <<>>
         /\ Range(consumed[a][i].data) \subseteq Range(ExistingChanges(a))
    /\ summary.changes = ExistingChanges(a)

\* C8: the persisted summary never holds two changes with the same
\* (timestamp, originalLocator), totalHealing is the length of changes, and
\* successfulHealing + failedHealing = totalHealing.
C8_SummaryInvariant ==
  summary.exists =>
    /\ NoDupKeys(summary.changes)
    /\ summary.totalHealing = Len(summary.changes)
    /\ summary.successfulHealing + summary.failedHealing = summary.totalHealing

C8_Witness ==
  /\ summary.exists /\ \A a \in Aggs : apc[a] = "done"
  /\ Len(summary.changes) = 2
  /\ summary.successfulHealing = 1 /\ summary.failedHealing = 1

\* C9: a reporter that runs undisturbed (no other process writes the directory
\* meanwhile, no unlink is refused) over files whose changes have pairwise
\* distinct keys, none of them in the summary: the summary it leaves holds the
\* former changes followed by exactly those, and none of the files exists.
C9_SingleRunAggregates ==
  \A a \in Aggs :
    (apc[a] = "done" /\ solo[a] /\ ~faulted[a]
       /\ NoDupKeys(ExistingChanges(a) \o healingChanges[a])) =>
      /\ summary.exists
      /\ summary.changes = ExistingChanges(a) \o healingChanges[a]
      /\ summary.totalHealing = Len(ExistingChanges(a)) + Len(healingChanges[a])
      /\ \A i \in 1..Len(consumed[a]) : ~files[consumed[a][i].name].exists

C9_Witness ==
  \E a \in Aggs :
    /\ apc[a] = "done" /\ solo[a] /\ ~faulted[a]
    /\ ~existingSummary[a].exists
    /\ Len(consumed[a]) = 2
    /\ Len(healingChanges[a]) = 2 /\ NoDupKeys(healingChanges[a])
    /\ \A i \in 1..2 : healingChanges[a][i].success
    /\ summary.totalHealing = 2

\* C10: once every run has ended, every reporter has finished and no
\* run-scoped file is left, each change ever recorded is in the summary
\* exactly once.
C10_NoHistoryLost ==
  (/\ \A r \in Runs : rpc[r] = "ended"
   /\ \A a \in Aggs : apc[a] = "done"
   /\ \A n \in FileNames : ~files[n].exists) =>
     \A e \in recorded : Occurrences(e, SummaryChanges) = 1

\* C11: two distinct runs that each recorded changes never flush to the same
\* run-scoped file.
C11_UniqueFileNames ==
  \A r, q \in Runs :
    (r # q /\ flushed[r].written /\ flushed[q].written) =>
       flushed[r].name # flushed[q].name

\* C13: a run writes its run-scoped file exactly when it ends with at least
\* one recorded change, and what it writes is its own changes list, whatever
\* the file held before.
C13_RunFileContent ==
  \A r \in Runs :
    /\ rpc[r] # "ended" => ~flushed[r].written
    /\ rpc[r] = "ended" =>
         /\ flushed[r].written <=> changes[r] # <<>>
         /\ flushed[r].written => flushed[r].data = changes[r]

\* A run flushed onto a file another run had already written: the file holds
\* the later run's list only.
C13_Witness ==
  \E r, q \in Runs :
    /\ r # q /\ flushed[r].written /\ flushed[q].written
    /\ flushed[r].name = flushed[q].name
    /\ changes[r] # changes[q]
    /\ files[flushed[r].name] = [exists |-> TRUE, parses |-> TRUE, data |-> changes[r]]

\* The changes of the summary a reporter read, and the list it wrote from them.
SnapshotChanges(a) == IF existingSummary[a].exists THEN existingSummary[a].changes ELSE <<>>
WrittenBy(a) == MergeChanges(SnapshotChanges(a), healingChanges[a])

\* C12: two reporters read-modify-write summary.json without coordination, so
\* a lost update is reachable (C12_Witness): the summary left by the later
\* writer omits a change the earlier writer had persisted. It happens only
\* that way: whenever a change a finished reporter persisted is missing from
\* the summary, the other reporter wrote from a snapshot that did not hold
\* what the first had written.
C12_LostUpdateFromStaleRead ==
  \A a, b \in Aggs :
    (a # b /\ apc[a] = "done" /\ apc[b] = "done"
       /\ ~(Range(WrittenBy(a)) \subseteq Range(SummaryChanges))) =>
      ~(Range(WrittenBy(a)) \subseteq Range(SnapshotChanges(b)))

C12_Witness ==
  \E a, b \in Aggs :
    /\ a # b /\ apc[a] = "done" /\ apc[b] = "done"
    /\ summary.changes = WrittenBy(b)
    /\ \E e \in Range(WrittenBy(a)) : e \notin Range(summary.changes)
    /\ \A n \in FileNames : ~files[n].exists

\* The changes held by the run-scoped files now in the directory.
InFiles == UNION {Range(files[n].data) : n \in {m \in FileNames : files[m].exists}}

\* C16: a run-scoped file a reporter consumed is gone only once the summary on
\* disk holds its changes: no change of a consumed and deleted file is missing
\* from both the summary and the remaining files.
C16_DeleteAfterPersist ==
  \A a \in Aggs : \A i \in 1..Len(consumed[a]) :
    ~files[consumed[a][i].name].exists =>
       Range(consumed[a][i].data) \subseteq Range(SummaryChanges) \cup InFiles

\* C14: a wrapped operation starts with the direct attempt on the locator it
\* was given; healLocator is entered only when that attempt failed; when it
\* succeeded the operation is over with it: no other call, the changes, the
\* cache and the recorded events as they were.
C14_DirectFirst ==
  /\ [](/\ trace # <<>> => trace[1].call = "direct" /\ trace[1].arg = op.locatorString
        /\ \A i \in CallsOf({"direct"}) : i = 1
        /\ \A i \in CallsOf({"healLocator"}) : i = 2 /\ ~trace[1].ok
        /\ (trace # <<>> /\ trace[1].ok) =>
              Len(trace) = 1 /\ hpc = "idle" /\ outcome = Returned /\ result = NoResult)
  /\ [][(opCount' # opCount /\ trace'[1].ok) =>
           /\ changes' = changes /\ healingCache' = healingCache /\ recorded' = recorded
           /\ evictedAt' = evictedAt /\ healedAt' = healedAt]_vars

\* A direct attempt succeeded on a locator the cache has an entry for, after an
\* earlier operation had recorded a healing.
C14_Witness ==
  /\ opCount = 2 /\ enabled[D] /\ trace = <<Call("direct", op.locatorString, "", FailFastTimeout, TRUE)>>
  /\ healingCache[D][op.locatorString] # NoEntry
  /\ Len(changes[D]) = 1 /\ outcome = Returned

ReplayCalls == {i \in 1..Len(trace) : trace[i].call \in {"replay.click", "replay.fill",
                                                          "replay.waitFor", "replay.isVisible"}}

\* C15: when healLocator returned a healed locator, the wrapper issues its own
\* operation once on that locator, with the value and the options of the
\* caller (no 5000 ms override); otherwise it replays nothing.
C15_ReplayOriginalOperation ==
  /\ (hpc = "idle" /\ result.healed) =>
        /\ ReplayCalls = {Len(trace)}
        /\ trace[Len(trace)].call = "replay." \o op.kind
        /\ trace[Len(trace)].arg = result.locator
        /\ trace[Len(trace)].value = op.value
        /\ trace[Len(trace)].timeout = op.timeout
        /\ outcome = IF trace[Len(trace)].ok THEN Returned ELSE Threw(ReplayError)
  /\ ~(hpc = "idle" /\ result.healed) => ReplayCalls = {}

C15_Witness ==
  /\ hpc = "idle" /\ result = Healed("B") /\ op.kind = "fill" /\ op.value = "Test"
  /\ trace[1] = Call("direct", op.locatorString, "Test", FailFastTimeout, FALSE)
  /\ trace[Len(trace)] = Call("replay.fill", "B", "Test", 30000, TRUE)
  /\ outcome = Returned

\* C17: a healLocator call answered from the cache records no change and
\* leaves the cache as it is: neither the step that enters the cache branch nor
\* the validation that succeeds changes this.changes or this.healingCache.
C17_CacheHitFrame ==
  /\ []((CacheValidated /\ trace[3].ok) => CallsOf({"recordChange"}) = {})
  /\ [][((hpc # "cache" /\ hpc' = "cache") \/ (hpc = "cache" /\ result'.healed)) =>
           /\ changes' = changes /\ healingCache' = healingCache
           /\ recorded' = recorded]_vars

\* A cache hit on the mapping a healing of the same run stored: still the one
\* change of that healing.
C17_Witness ==
  /\ opCount = 2 /\ CacheValidated /\ trace[3].ok /\ result.healed
  /\ healedAt[op.locatorString] = 1
  /\ Len(changes[D]) = 1 /\ changes[D][1].healedLocator = result.locator
  /\ healingCache[D][op.locatorString] = result.locator

\* C18: a page.content() that throws ends the healing attempt: it is the last
\* call of the operation, healLocator returns not healed, neither provider
\* variant is called, no candidate is validated (only the cached locator may
\* have been, before the capture), no screenshot is taken, no change is
\* recorded, and the wrapper throws the error of the direct attempt.
C18_CaptureFailureTerminal ==
  \A i \in CallsOf({"content"}) :
    ~trace[i].ok =>
      /\ i = Len(trace) /\ hpc = "idle"
      /\ result = NotHealed
      /\ outcome = Threw(DirectError(op.kind))
      /\ ProviderCalls = {}
      /\ CallsOf({"screenshot", "recordChange"}) = {}
      /\ CallsOf({"validate"}) \subseteq {3}
      /\ attemptedLocators = <<>>

\* The capture failed right after the cached locator had failed its
\* re-validation, in a run that had recorded a change before.
C18_Witness ==
  /\ opCount = 2 /\ Len(trace) = 4
  /\ trace[3].call = "validate" /\ ~trace[3].ok
  /\ trace[4].call = "content" /\ ~trace[4].ok
  /\ Len(changes[D]) = 1 /\ outcome = Threw(DirectError(op.kind))

\* The vision call at position j of the trace came back to healLocator (it did
\* not throw on reading the screenshot file).
VisionReturned(j) == ~(j = Len(trace) /\ outcome = Threw(ScreenshotReadError))

\* C19: a provider call that fails (API error, empty message, unparsable or
\* non-array answer, missing screenshot file) yields no candidate. After the
\* text call failed, healLocator goes on to the screenshot of the vision phase
\* without validating anything; after the vision call failed, it records one
\* change with success = false, returns not healed, and the wrapper throws the
\* error of the direct attempt.
C19_ProviderFailureIsEmptyList ==
  /\ \A i \in CallsOf({"suggestLocator"}) :
       ~trace[i].ok =>
         /\ suggestions = <<>>
         /\ i = Len(trace) => hpc = "screenshot" /\ outcome = Pending
         /\ i < Len(trace) => trace[i + 1].call = "screenshot"
  /\ \A j \in CallsOf({"analyzeScreenshotForLocator"}) :
       (~trace[j].ok /\ VisionReturned(j)) =>
         /\ visionSuggestions = <<>>
         /\ Len(trace) = j + 1
         /\ trace[j + 1] = Call("recordChange", "", "", 0, FALSE)
         /\ ~LastChange.success /\ LastChange.healedLocator = ""
         /\ LastChange.attemptedLocators = attemptedLocators
         /\ result = NotHealed
         /\ outcome = Threw(DirectError(op.kind))
         /\ hpc = "idle"

\* Both provider calls failed in one healing.
C19_Witness ==
  /\ Len(trace) = 7
  /\ trace[4].call = "suggestLocator" /\ ~trace[4].ok
  /\ trace[5].call = "screenshot" /\ trace[5].ok
  /\ trace[6].call = "analyzeScreenshotForLocator" /\ ~trace[6].ok
  /\ trace[7].call = "recordChange"
  /\ Len(changes[D]) = 1 /\ LastChange.attemptedLocators = <<>> /\ ~LastChange.success
  /\ outcome = Threw(DirectError(op.kind))

\* Position of the analyzeScreenshotForLocator call in the trace (0 when there
\* is none), the validations that follow it directly (those of the vision
\* loop), and the vision candidates the loop has to try: those the text loop
\* did not attempt, each once, in the provider's order.
AnalyzePos == IF \E i \in 1..Len(trace) : trace[i].call = "analyzeScreenshotForLocator"
              THEN CHOOSE i \in 1..Len(trace) : trace[i].call = "analyzeScreenshotForLocator"
              ELSE 0
VisionValidations ==
  Cardinality({i \in 1..Len(trace) - AnalyzePos :
                 \A j \in 1..i : trace[AnalyzePos + j].call = "validate"})
VisionToTry == Dedupe(visionSuggestions, Range(suggestions))

\* C20: a candidate that fails its validation does not end healLocator: it is
\* in attemptedLocators, the wrapped operation has thrown nothing, and the
\* next call is the validation of the next candidate of the same loop, or,
\* after the last candidate, the screenshot (text loop) or the recording of
\* the failed healing (vision loop).
C20_FailedCandidateAdvances ==
  /\ SuggestPos > 0 =>
       \A i \in 1..TextValidations :
         LET at == SuggestPos + i IN
         ~trace[at].ok =>
           /\ Len(attemptedLocators) >= i /\ attemptedLocators[i] = trace[at].arg
           /\ at = Len(trace) =>
                /\ outcome = Pending /\ ~result.returned
                /\ IF i < Len(suggestions) THEN hpc = "text" /\ idx = i + 1
                                           ELSE hpc = "screenshot"
           /\ at < Len(trace) =>
                IF i < Len(suggestions)
                THEN trace[at + 1].call = "validate" /\ trace[at + 1].arg = suggestions[i + 1]
                ELSE trace[at + 1].call = "screenshot"
  /\ (AnalyzePos > 0 /\ VisionReturned(AnalyzePos)) =>
       LET n == Len(suggestions) IN
       /\ VisionValidations <= Len(VisionToTry)
       /\ VisionValidations = 0 =>
            IF VisionToTry = <<>>
            THEN trace[AnalyzePos + 1] = Call("recordChange", "", "", 0, FALSE)
            ELSE hpc = "visionLoop" /\ visionSuggestions[idx] = VisionToTry[1]
       /\ \A i \in 1..VisionValidations :
            LET at == AnalyzePos + i IN
            /\ trace[at].arg = VisionToTry[i]
            /\ Len(attemptedLocators) >= n + i /\ attemptedLocators[n + i] = trace[at].arg
            /\ ~trace[at].ok =>
                 /\ at = Len(trace) =>
                      /\ outcome = Pending /\ ~result.returned /\ hpc = "visionLoop"
                      /\ i < Len(VisionToTry) /\ visionSuggestions[idx] = VisionToTry[i + 1]
                 /\ at < Len(trace) =>
                      IF i < Len(VisionToTry)
                      THEN trace[at + 1].call = "validate"
                      ELSE /\ trace[at + 1] = Call("recordChange", "", "", 0, FALSE)
                           /\ result = NotHealed /\ outcome = Threw(DirectError(op.kind))
                           /\ LastChange.attemptedLocators = attemptedLocators

\* A failed text candidate, then a failed vision candidate, then a vision
\* candidate that validates: all three are in attemptedLocators.
C20_Witness ==
  /\ hpc = "idle" /\ result = Healed("C")
  /\ suggestions = <<"A">> /\ visionSuggestions = <<"B", "C">>
  /\ ~trace[SuggestPos + 1].ok /\ ~trace[AnalyzePos + 1].ok /\ trace[AnalyzePos + 2].ok
  /\ LastChange.attemptedLocators = <<"A", "B", "C">>

\* C21: the screenshot is taken, and analyzeScreenshotForLocator called, only
\* after suggestLocator has returned and each of its candidates has been
\* validated and failed; once a text candidate validates there is neither.
C21_VisionAfterTextExhausted ==
  /\ \A i \in CallsOf({"screenshot"}) :
       /\ SuggestPos > 0
       /\ i = SuggestPos + Len(suggestions) + 1
       /\ \A k \in 1..Len(suggestions) :
            /\ trace[SuggestPos + k].call = "validate"
            /\ trace[SuggestPos + k].arg = suggestions[k]
            /\ ~trace[SuggestPos + k].ok
  /\ \A j \in CallsOf({"analyzeScreenshotForLocator"}) :
       trace[j - 1].call = "screenshot" /\ trace[j - 1].ok
  /\ (SuggestPos > 0 /\ \E k \in 1..TextValidations : trace[SuggestPos + k].ok) =>
       CallsOf({"screenshot", "analyzeScreenshotForLocator"}) = {}

\* Two text candidates failed, then the screenshot and the vision call.
C21_Witness ==
  /\ SuggestPos > 0 /\ suggestions = <<"A", "B">>
  /\ Len(trace) >= SuggestPos + 4
  /\ ~trace[SuggestPos + 1].ok /\ ~trace[SuggestPos + 2].ok
  /\ trace[SuggestPos + 3].call = "screenshot"
  /\ AnalyzePos = SuggestPos + 4

\* C22: a healLocator call whose page.content() succeeded has, when it is
\* over, recorded exactly one change.
C22_OneEventPerAttempt ==
  (hpc \in {"idle", "replay"} /\ \E i \in CallsOf({"content"}) : trace[i].ok) =>
     Cardinality(CallsOf({"recordChange"})) = 1

\* The healedLocator of the last success = true change for L in cs; NoEntry
\* when cs holds none.
SeededEntry(cs, L) ==
  LET S == {i \in 1..Len(cs) : cs[i].success /\ cs[i].originalLocator = L} IN
  IF S = {} THEN NoEntry ELSE cs[CHOOSE i \in S : \A j \in S : j <= i].healedLocator

\* C23: the constructor leaves the cache mapping every L to the healedLocator
\* of the last success = true change for L in summary.json's changes, and
\* without an entry for an L that has no success = true change there.
C23_CacheSeeding ==
  [][\A r \in Runs :
       (rpc[r] = "new" /\ rpc'[r] = "running") =>
          \A L \in Originals :
             healingCache'[r][L] =
                IF summary.exists THEN SeededEntry(summary.changes, L) ELSE NoEntry]_vars

\* A context constructed over a summary.json holding two successful healings
\* of one locator: the later one is cached, the other locator has no entry.
C23_Witness ==
  \E r \in Runs, L \in Originals :
    /\ rpc[r] = "running" /\ changes[r] = <<>>
    /\ summary.exists /\ summary.timestamp = -1 /\ Len(summary.changes) = 2
    /\ summary.changes[1].success /\ summary.changes[1].originalLocator = L
    /\ summary.changes[2].success /\ summary.changes[2].originalLocator = L
    /\ summary.changes[1].healedLocator = "B" /\ summary.changes[2].healedLocator = "A"
    /\ healingCache[r][L] = "A"
    /\ \A K \in Originals \ {L} : healingCache[r][K] = NoEntry

\* C24: once onEnd has merged the file of a run whose healing of L succeeded,
\* a context constructed afterwards caches L under that run's healedLocator,
\* whatever older success for L summary.json held.
C24_FreshHealingWins ==
  [][\A q \in Runs, r \in Runs, L \in Originals :
       (/\ rpc[q] = "new" /\ rpc'[q] = "running"
        /\ flushed[r].written /\ flushed[r].data # <<>>
        /\ flushed[r].data[Len(flushed[r].data)].success
        /\ flushed[r].data[Len(flushed[r].data)].originalLocator = L
        /\ \E a \in SeedAggs :
             /\ apc[a] = "done"
             /\ \E i \in 1..Len(consumed[a]) :
                  consumed[a][i] = [name |-> flushed[r].name, data |-> flushed[r].data])
       => healingCache'[q][L] = flushed[r].data[Len(flushed[r].data)].healedLocator]_vars

\* summary.json held L -> A from an earlier invocation; a run healed L to B,
\* onEnd appended that change after the old one, and the context constructed
\* next caches L -> B.
C24_Witness ==
  \E q \in Runs, r \in Runs, L \in Originals :
    /\ q # r /\ rpc[q] = "running" /\ changes[q] = <<>>
    /\ Len(summary.changes) = 2
    /\ summary.changes[1].timestamp < 0 /\ summary.changes[1].success
    /\ summary.changes[1].originalLocator = L /\ summary.changes[1].healedLocator = "A"
    /\ flushed[r].written /\ flushed[r].data = <<summary.changes[2]>>
    /\ summary.changes[2].success /\ summary.changes[2].originalLocator = L
    /\ summary.changes[2].healedLocator = "B"
    /\ healingCache[q][L] = "B"

\* C25: a damaged summary.json leaves a constructed context with an empty
\* cache and onEnd with an empty list to merge into, a damaged run-scoped
\* file does not keep the other files from being merged, and onEnd never
\* ends by an exception.
C25_PersistenceFailureIsAbsence ==
  /\ \A a \in SeedAggs : apc[a] # "threw"
  /\ \A r \in Runs :
       (rpc[r] = "running" /\ changes[r] = <<>> /\ summary \in DamagedSummaries) =>
          healingCache[r] = EmptyCache
  /\ \A a \in SeedAggs :
       (apc[a] = "write" /\ summary \in DamagedSummaries) => ExistingChanges(a) = <<>>
  /\ \A a \in SeedAggs :
       apc[a] = "done" =>
          \A i \in 1..Len(consumed[a]) :
            ~HasNull(consumed[a][i].data) =>
               \A k \in 1..Len(consumed[a][i].data) :
                  \E d \in Range(summary.changes) : SameKey(consumed[a][i].data[k], d)

\* C26: the direct attempt of every wrapped operation is issued with the
\* 5000 ms fail-fast timeout, whatever timeout the caller's options carry.
C26_DirectTimeoutIsFailFast ==
  \A i \in CallsOf({"direct"}) : trace[i].timeout = FailFastTimeout

\* C27: every change healLocator recorded is well-formed: a successful one
\* has a non-empty attemptedLocators whose last element is its healedLocator,
\* a failed one has the empty healedLocator; and the change an operation
\* records carries the locator of that operation and the message of the
\* error its direct attempt threw.
C27_EventWellFormed ==
  /\ \A i \in 1..Len(changes[D]) :
       LET c == changes[D][i] IN
       /\ c.success => /\ c.attemptedLocators # <<>>
                       /\ c.healedLocator = c.attemptedLocators[Len(c.attemptedLocators)]
       /\ ~c.success => c.healedLocator = ""
       /\ c \in recorded
  /\ \A i \in CallsOf({"recordChange"}) :
       /\ i = Len(trace) \/ i = Len(trace) - 1
       /\ changes[D] # <<>>
       /\ LastChange.originalLocator = trace[1].arg
       /\ LastChange.originalLocator = op.locatorString
       /\ LastChange.errorMessage = DirectError(op.kind)
       /\ LastChange.success = trace[i].ok

\* A failed change with a candidate tried, then a successful one whose second
\* candidate validated.
C27_Witness ==
  /\ Len(changes[D]) = 2
  /\ ~changes[D][1].success /\ changes[D][1].attemptedLocators # <<>>
  /\ changes[D][2].success /\ Len(changes[D][2].attemptedLocators) = 2
  /\ changes[D][2].healedLocator = "B"
  /\ CallsOf({"recordChange"}) # {}

\* The success = true changes for L with healedLocator H in cs.
SuccessFor(cs, L, H) ==
  {i \in 1..Len(cs) : cs[i].success /\ cs[i].originalLocator = L /\ cs[i].healedLocator = H}

\* C28: every cache entry L -> H of the context has a success = true change
\* for L with healedLocator H in the summary.json read at construction or in
\* the context's own changes; the healing that has just recorded a successful
\* change left cache[L] at that change's healedLocator.
C28_CacheEntriesAreSuccesses ==
  /\ \A L \in Originals :
       healingCache[D][L] # NoEntry =>
          \/ summary.exists /\ SuccessFor(summary.changes, L, healingCache[D][L]) # {}
          \/ SuccessFor(changes[D], L, healingCache[D][L]) # {}
  /\ \A i \in CallsOf({"recordChange"}) :
       trace[i].ok => /\ LastChange.success
                      /\ healingCache[D][op.locatorString] = LastChange.healedLocator
                      /\ trace[i - 1].call = "validate" /\ trace[i - 1].ok
                      /\ trace[i - 1].arg = LastChange.healedLocator

\* One entry seeded from summary.json, another set by a healing of this
\* context after a first candidate had failed.
C28_Witness ==
  \E L \in Originals, K \in Originals :
    /\ L # K
    /\ summary.exists /\ SuccessFor(summary.changes, L, healingCache[D][L]) # {}
    /\ SuccessFor(changes[D], L, healingCache[D][L]) = {}
    /\ healingCache[D][K] = "B"
    /\ SuccessFor(changes[D], K, "B") # {}
    /\ changes[D][Len(changes[D])].attemptedLocators = <<"A", "B">>
    /\ CallsOf({"recordChange"}) # {}

\* C29: a wrapped operation enters healLocator at most once and replays at
\* most once, as its last call; a replay that fails ends the operation with
\* the replay's error; the replay changes neither the cache nor the recorded
\* changes.
C29_HealOncePerOperation ==
  /\ [](/\ Cardinality(CallsOf({"healLocator"})) <= 1
        /\ Cardinality(ReplayCalls) <= 1
        /\ Cardinality(CallsOf({"recordChange"})) <= 1
        /\ \A i \in ReplayCalls :
             /\ i = Len(trace) /\ hpc = "idle"
             /\ outcome = IF trace[i].ok THEN Returned ELSE Threw(ReplayError))
  /\ [][hpc = "replay" =>
          /\ changes' = changes /\ healingCache' = healingCache /\ recorded' = recorded
          /\ evictedAt' = evictedAt /\ healedAt' = healedAt]_vars

\* The replay on a locator just healed failed: the operation is over with
\* the replay's error, one healLocator call and one change behind it.
C29_Witness ==
  /\ ReplayCalls # {} /\ ~trace[Len(trace)].ok
  /\ outcome = Threw(ReplayError) /\ hpc = "idle"
  /\ Cardinality(CallsOf({"healLocator"})) = 1
  /\ Len(changes[D]) = 1 /\ changes[D][1].success
  /\ healingCache[D][op.locatorString] = changes[D][1].healedLocator

\* C30: a healLocator call makes at most one cache validation, at most one
\* call of each provider variant, at most one validation per text candidate
\* and per vision candidate not yet attempted, and validates no candidate
\* twice.
C30_BoundedWork ==
  /\ Cardinality({i \in CallsOf({"validate"}) : SuggestPos = 0 \/ i < SuggestPos}) <= 1
  /\ Cardinality(CallsOf({"suggestLocator"})) <= 1
  /\ Cardinality(CallsOf({"analyzeScreenshotForLocator"})) <= 1
  /\ Cardinality(CallsOf({"validate"})) <= 1 + Len(suggestions) + Len(VisionToTry)
  /\ \A i, j \in CallsOf({"validate"}) :
       (SuggestPos > 0 /\ SuggestPos < i /\ i < j) => trace[i].arg # trace[j].arg

====
